---- MODULE Spec2Model ----
(***************************************************************************)
(* wg-easy: the WireGuard service (Sync Engine), its reconciliation pass   *)
(* and the file-backed client repository it persists through.              *)
(*                                                                         *)
(* Sources:                                                                *)
(*   src/unnamed/part_001                  class WireGuard                 *)
(*   src/src/services/database/repositories/system/model.ts                *)
(*                                         LowDBClient, LowDBUser, LowDB   *)
(*   src/unnamed/part_000                  InMemory (user methods)         *)
(*                                                                         *)
(* Every `await` of the source is a scheduling point: an async method is   *)
(* modelled as a chain of actions, one per run of synchronous code between *)
(* two awaits.  A repository mutator runs `this.#db.update(cb)`; lowdb's   *)
(* update applies cb to the in-memory document before its first await, so  *)
(* the registry changes in the same synchronous run that calls the         *)
(* mutator, and the await that follows only waits for the flush.           *)
(* findAll returns `this.#db.data.clients` itself (model.ts:163), not a    *)
(* copy: what a caller holds is an alias of the live registry.             *)
(***************************************************************************)
EXTENDS Integers, Sequences, FiniteSets, TLC

VARIABLES
    system,     \* the System record of the document (read-only after Init)
    clients,    \* db.data.clients, in insertion order (Object.values order)
    conf,       \* content of wg0.conf: a sequence of blocks, <<>> before the first write
    kernel,     \* the configuration the kernel interface was last synced to
    calls,      \* per request slot: the position and locals of the call in flight
    cron,       \* position and locals of the reconciliation pass
    now,        \* Date.now(), in milliseconds
    ticks,      \* number of clock advances so far
    nextId,     \* source of fresh values (crypto.randomUUID, generated keys)
    boot,       \* Startup and the reconciliation loop: position, timers, steps taken
    users,      \* db.data.users of the file-backed provider, in array order
    memory,     \* data.users of the in-memory provider, in array order
    ucalls,     \* per request slot: the user-repository call in flight
    created,    \* the users created so far, in order: [backend, id, role] (history)
    provider    \* the LowDB provider: its #db, its connected flag, its repositories

userVars == <<users, memory, ucalls, created, provider>>
wgVars == <<system, clients, conf, kernel, calls, cron, now, ticks, nextId>>

vars == <<system, clients, conf, kernel, calls, cron, now, ticks, nextId,
          boot, users, memory, ucalls, created, provider>>

----------------------------------------------------------------------------
(* Bounds of the model *)

MaxIds == 3          \* clients ever created in one behaviour of Spec
MaxConcIds == 2      \* ... of SpecConc
MaxSeqIds == 1       \* ... of SpecSeq
MaxCronIds == 2      \* ... of SpecCron
MaxTicks == 1        \* clock advances in one behaviour
MaxErrIds == 2       \* clients ever created in one behaviour of SpecErr
MaxBootClients == 2  \* clients in the registry SpecBoot starts over
MaxUsers == 2        \* users ever created in one behaviour of SpecUsers
MaxMemUsers == 3     \* ... of SpecMemory
MaxFrameClients == 2 \* clients in the registry SpecFrame starts over

(* Program constants, in milliseconds *)

OneTimeLinkTTL == 300000     \* 5 * 60 * 1000
EraseDelay == 10000          \* 10 * 1000
DayMs == 86400000            \* one calendar day
EndOfDayMs == 86399000       \* 23:59:59 into the day
StartupDelay == 1000         \* delay of the connected check of Startup
CronInterval == 60000        \* 60 * 1000, between two reconciliation passes
MinUsernameLen == 8          \* shortest username the in-memory provider accepts

Procs == { 1, 2 }     \* request slots: calls that can be in flight together

Lowest(S) == CHOOSE n \in S : \A m \in S : n <= m

Null == <<>>
Some(x) == <<x>>
IsNull(o) == o = <<>>
Val(o) == o[1]

----------------------------------------------------------------------------
(* Addresses.  An IPv4 string is its dotted quad, an IPv6 string its eight  *)
(* groups.  Only the last group of a v6 pool varies (prefix >= 112).        *)

Pow2(n) == 2 ^ n

Ip4Number(q) == ((q[1] * 256 + q[2]) * 256 + q[3]) * 256 + q[4]

stringifyIp4(n) ==
    << n \div 16777216, (n \div 65536) % 256, (n \div 256) % 256, n % 256 >>

stringifyIp6(hi, n) == hi \o << n >>

parseCidr4(range) ==
    LET size == Pow2(32 - range.prefix)
        base == Ip4Number(range.ip) - (Ip4Number(range.ip) % size)
    IN  [start |-> base, end |-> base + size - 1]

parseCidr6(range) ==
    LET size == Pow2(128 - range.prefix)
        lo   == range.ip[8]
        base == lo - (lo % size)
    IN  [hi |-> SubSeq(range.ip, 1, 7), start |-> base, end |-> base + size - 1]

isIPv4_lengthOnly(s) == Len(s) = 4

isIPv4(s) == Len(s) = 4 /\ \A k \in 1..4 : s[k] \in 0..255

----------------------------------------------------------------------------
(* The client repository (LowDBClient).  Each mutator is the callback it    *)
(* hands to db.update, applied to the clients collection.                   *)

Index(cs, id) == { k \in 1..Len(cs) : cs[k].id = id }
Has(cs, id) == Index(cs, id) # {}

findAll_copy(cs) == [live |-> FALSE, copy |-> cs]

findAll(cs) == [live |-> TRUE, copy |-> <<>>]

(* What the holder of a findAll result sees when it reads through it. *)
Deref(ref, cs) == IF ref.live THEN cs ELSE ref.copy

NoRef == [live |-> FALSE, copy |-> <<>>]

findById(cs, id) == IF Has(cs, id) THEN Some(cs[CHOOSE k \in Index(cs, id) : TRUE]) ELSE Null

LowDBClient_create(cs, client) ==
    IF Has(cs, client.id)
    THEN [k \in 1..Len(cs) |-> IF cs[k].id = client.id THEN client ELSE cs[k]]
    ELSE Append(cs, client)

LowDBClient_delete(cs, id) == SelectSeq(cs, LAMBDA c : c.id # id)

toggle_all(cs, id, enable) ==
    [k \in 1..Len(cs) |-> IF Has(cs, id) THEN [cs[k] EXCEPT !.enabled = enable] ELSE cs[k]]

toggle(cs, id, enable) ==
    [k \in 1..Len(cs) |-> IF cs[k].id = id THEN [cs[k] EXCEPT !.enabled = enable] ELSE cs[k]]

updateName(cs, id, name) ==
    [k \in 1..Len(cs) |-> IF cs[k].id = id THEN [cs[k] EXCEPT !.name = name] ELSE cs[k]]

updateAddress4(cs, id, address4) ==
    [k \in 1..Len(cs) |-> IF cs[k].id = id THEN [cs[k] EXCEPT !.address4 = address4] ELSE cs[k]]

updateExpirationDate(cs, id, expirationDate) ==
    [k \in 1..Len(cs) |->
        IF cs[k].id = id THEN [cs[k] EXCEPT !.expiresAt = expirationDate] ELSE cs[k]]

deleteOneTimeLink_remove(cs, id, t) ==
    [k \in 1..Len(cs) |-> IF cs[k].id = id THEN [cs[k] EXCEPT !.oneTimeLink = Null] ELSE cs[k]]

deleteOneTimeLink(cs, id, t) ==
    [k \in 1..Len(cs) |->
        IF cs[k].id = id /\ ~IsNull(cs[k].oneTimeLink)
        THEN [cs[k] EXCEPT !.oneTimeLink =
                 Some([Val(cs[k].oneTimeLink) EXCEPT !.expiresAt = t + EraseDelay])]
        ELSE cs[k]]

createOneTimeLink(cs, id, oneTimeLink) ==
    [k \in 1..Len(cs) |->
        IF cs[k].id = id THEN [cs[k] EXCEPT !.oneTimeLink = Some(oneTimeLink)] ELSE cs[k]]

----------------------------------------------------------------------------
(* Address allocation: the two scans of createClient. *)

Taken4(cs) == { cs[k].address4 : k \in 1..Len(cs) }
Taken6(cs) == { cs[k].address6 : k \in 1..Len(cs) }

RECURSIVE Scan4(_, _, _)
Scan4(i, last, cs) ==
    IF i > last THEN Null
    ELSE IF stringifyIp4(i) \notin Taken4(cs) THEN Some(stringifyIp4(i))
    ELSE Scan4(i + 1, last, cs)

RECURSIVE Scan6(_, _, _, _)
Scan6(hi, i, last, cs) ==
    IF i > last THEN Null
    ELSE IF stringifyIp6(hi, i) \notin Taken6(cs) THEN Some(stringifyIp6(hi, i))
    ELSE Scan6(hi, i + 1, last, cs)

NextAddress4_fromServer(sys, cs) ==
    LET cidr4 == parseCidr4(sys.userConfig.address4Range)
    IN  Scan4(cidr4.start + 1, cidr4.end - 1, cs)

NextAddress4(sys, cs) ==
    LET cidr4 == parseCidr4(sys.userConfig.address4Range)
    IN  Scan4(cidr4.start + 2, cidr4.end - 1, cs)

NextAddress6_inclLast(sys, cs) ==
    LET cidr6 == parseCidr6(sys.userConfig.address6Range)
    IN  Scan6(cidr6.hi, cidr6.start + 2, cidr6.end, cs)

NextAddress6(sys, cs) ==
    LET cidr6 == parseCidr6(sys.userConfig.address6Range)
    IN  Scan6(cidr6.hi, cidr6.start + 2, cidr6.end - 1, cs)

(* 23:59:59 on the given day (the container's clock is UTC). *)
EndOfDay(expireDate) ==
    IF IsNull(expireDate) THEN Null ELSE Some(Val(expireDate) * DayMs + EndOfDayMs)

----------------------------------------------------------------------------
(* Command Gateway and Config Renderer (the wg helper): key derivation and  *)
(* the blocks of the config file.                                           *)

generatePrivateKey(k) == << "priv", k >>
getPublicKey(privateKey) == << "pub", privateKey[2] >>

generateServerInterface(sys) ==
    [section |-> "Interface", key |-> sys.interface.privateKey, allowedIPs |-> <<>>]

generateServerPeer(client) ==
    [section |-> "Peer", key |-> client.publicKey,
     allowedIPs |-> << client.address4, client.address6 >>]

Enabled(cs) == SelectSeq(cs, LAMBDA c : c.enabled)

RenderConfig_all(sys, cs) ==
    << generateServerInterface(sys) >> \o [k \in 1..Len(cs) |-> generateServerPeer(cs[k])]

RenderConfig(sys, cs) ==
    << generateServerInterface(sys) >>
        \o [k \in 1..Len(Enabled(cs)) |-> generateServerPeer(Enabled(cs)[k])]

----------------------------------------------------------------------------
(* State of a call in flight and of the reconciliation pass. *)

IdleCall ==
    [pc |-> "idle", op |-> "none", id |-> 0, name |-> "", expireDate |-> Null,
     key |-> <<>>, ref |-> NoRef, content |-> <<>>, dump |-> <<>>,
     status |-> 0, cause |-> "", ev |-> <<>>, pre |-> <<>>, t0 |-> 0]

IdleCron ==
    [pc |-> "idle", ref |-> NoRef, snap |-> <<>>, i |-> 0,
     pre |-> <<>>, t0 |-> 0, disabled |-> {}]

AllIdle == cron.pc = "idle" /\ \A p \in Procs : calls[p].pc = "idle"

Begin(op, id) ==
    [IdleCall EXCEPT !.op = op, !.id = id, !.t0 = now, !.pre = clients]

(* The order of saveConfig: #saveWireguardConfig (read, render, write),     *)
(* then #syncWireguardConfig.  Maps a position to the one that follows it.  *)
saveConfig_syncFirst(pc) ==
    CASE pc = "save" -> "sync"
      [] pc = "sync" -> "s_render"
      [] pc = "s_render" -> "s_write"
      [] pc = "s_write" -> "done"

saveConfig_syncOnly(pc) ==
    CASE pc = "save" -> "sync"
      [] pc = "s_render" -> "sync"
      [] pc = "s_write" -> "sync"
      [] pc = "sync" -> "done"

saveConfig(pc) ==
    CASE pc = "save" -> "s_render"
      [] pc = "s_render" -> "s_write"
      [] pc = "s_write" -> "sync"
      [] pc = "sync" -> "done"

(* new Date() > new Date(stamp) *)
Expired_reversed(t, stamp) == t < stamp

Expired(t, stamp) == t > stamp

OneTimeLinkToken(clientId, r) == << "crc32", clientId, r >>

----------------------------------------------------------------------------
(* WireGuard.createClient *)

createClient(p, name, expireDate) ==
    /\ calls[p].pc = "idle"
    /\ calls' = [calls EXCEPT ![p] =
          [Begin("createClient", nextId) EXCEPT
              !.pc = "c_read", !.name = name, !.expireDate = expireDate]]
    /\ nextId' = nextId + 1
    /\ UNCHANGED <<boot, userVars, system, clients, conf, kernel, cron, now, ticks>>

createClient_read(p) ==
    /\ calls[p].pc = "c_read"
    /\ calls' = [calls EXCEPT ![p].pc = "c_keys", ![p].ref = findAll(clients)]
    /\ UNCHANGED <<boot, userVars, system, clients, conf, kernel, cron, now, ticks, nextId>>

createClient_keys(p) ==
    /\ calls[p].pc = "c_keys"
    /\ calls' = [calls EXCEPT ![p].pc = "c_alloc",
                              ![p].key = generatePrivateKey(calls[p].id)]
    /\ UNCHANGED <<boot, userVars, system, clients, conf, kernel, cron, now, ticks, nextId>>

NewClient(c, address4, address6) ==
    [id |-> c.id, name |-> c.name, address4 |-> address4, address6 |-> address6,
     publicKey |-> getPublicKey(c.key), enabled |-> TRUE,
     expiresAt |-> EndOfDay(c.expireDate), oneTimeLink |-> Null]

createClient_alloc(p) ==
    /\ calls[p].pc = "c_alloc"
    /\ LET c  == calls[p]
           cs == Deref(c.ref, clients)
           a4 == NextAddress4(system, cs)
           a6 == NextAddress6(system, cs)
       IN  IF IsNull(a4)
           THEN /\ calls' = [calls EXCEPT ![p].pc = "done", ![p].status = 409,
                                ![p].cause = "IPv4 Address Pool exhausted"]
                /\ UNCHANGED clients
           ELSE IF IsNull(a6)
           THEN /\ calls' = [calls EXCEPT ![p].pc = "done", ![p].status = 409,
                                ![p].cause = "IPv6 Address Pool exhausted"]
                /\ UNCHANGED clients
           ELSE /\ clients' = LowDBClient_create(clients, NewClient(c, Val(a4), Val(a6)))
                /\ calls' = [calls EXCEPT ![p].pc = "save",
                                          ![p].ev = Append(c.ev, "persist")]
    /\ UNCHANGED <<boot, userVars, system, conf, kernel, cron, now, ticks, nextId>>

----------------------------------------------------------------------------
(* The other mutators: the repository call runs in the synchronous part of  *)
(* the method, saveConfig follows once the flush has been awaited.          *)

Persist(p, op, clientId, cs) ==
    /\ calls[p].pc = "idle"
    /\ clients' = cs
    /\ calls' = [calls EXCEPT ![p] =
          [Begin(op, clientId) EXCEPT !.pc = "save", !.ev = << "persist" >>]]
    /\ UNCHANGED <<boot, userVars, system, conf, kernel, cron, now, ticks, nextId>>

deleteClient(p, clientId) ==
    Persist(p, "deleteClient", clientId, LowDBClient_delete(clients, clientId))

enableClient(p, clientId) ==
    Persist(p, "enableClient", clientId, toggle(clients, clientId, TRUE))

disableClient(p, clientId) ==
    Persist(p, "disableClient", clientId, toggle(clients, clientId, FALSE))

updateClientName(p, clientId, name) ==
    Persist(p, "updateClientName", clientId, updateName(clients, clientId, name))

updateClientAddress(p, clientId, address4) ==
    IF ~isIPv4(address4)
    THEN /\ calls[p].pc = "idle"
         /\ calls' = [calls EXCEPT ![p] =
               [Begin("updateClientAddress", clientId) EXCEPT !.pc = "done", !.status = 400]]
         /\ UNCHANGED <<boot, userVars, system, clients, conf, kernel, cron, now, ticks, nextId>>
    ELSE Persist(p, "updateClientAddress", clientId,
                 updateAddress4(clients, clientId, address4))

updateClientExpireDate(p, clientId, expireDate) ==
    Persist(p, "updateClientExpireDate", clientId,
            updateExpirationDate(clients, clientId, EndOfDay(expireDate)))

generateOneTimeLink(p, clientId, r) ==
    Persist(p, "generateOneTimeLink", clientId,
            createOneTimeLink(clients, clientId,
                [oneTimeLink |-> OneTimeLinkToken(clientId, r),
                 expiresAt |-> now + OneTimeLinkTTL]))

eraseOneTimeLink(p, clientId) ==
    Persist(p, "eraseOneTimeLink", clientId, deleteOneTimeLink(clients, clientId, now))

----------------------------------------------------------------------------
(* WireGuard.saveConfig *)

saveWireguardConfig_read(p) ==
    /\ calls[p].pc = "save"
    /\ calls' = [calls EXCEPT ![p].pc = saveConfig("save"), ![p].ref = findAll(clients)]
    /\ UNCHANGED <<boot, userVars, system, clients, conf, kernel, cron, now, ticks, nextId>>

saveWireguardConfig_render(p) ==
    /\ calls[p].pc = "s_render"
    /\ calls' = [calls EXCEPT ![p].pc = saveConfig("s_render"),
                    ![p].content = RenderConfig(system, Deref(calls[p].ref, clients))]
    /\ UNCHANGED <<boot, userVars, system, clients, conf, kernel, cron, now, ticks, nextId>>

saveWireguardConfig_written(p) ==
    /\ calls[p].pc = "s_write"
    /\ conf' = calls[p].content
    /\ calls' = [calls EXCEPT ![p].pc = saveConfig("s_write"),
                              ![p].ev = Append(calls[p].ev, "write")]
    /\ UNCHANGED <<boot, userVars, system, clients, kernel, cron, now, ticks, nextId>>

syncWireguardConfig(p) ==
    /\ calls[p].pc = "sync"
    /\ kernel' = conf
    /\ calls' = [calls EXCEPT ![p].pc = saveConfig("sync"),
                              ![p].ev = Append(calls[p].ev, "sync"),
                              ![p].status = 200]
    /\ UNCHANGED <<boot, userVars, system, clients, conf, cron, now, ticks, nextId>>

(* `await wg.sync()` rejects: saveConfig has no handler, neither has the    *)
(* operation that called it, so the call ends with the error.               *)
syncWireguardConfig_fails(p) ==
    /\ calls[p].pc = "sync"
    /\ calls' = [calls EXCEPT ![p].pc = "done",
                              ![p].ev = Append(calls[p].ev, "sync_failed"),
                              ![p].status = 500, ![p].cause = "wg sync failed"]
    /\ UNCHANGED <<boot, userVars, system, clients, conf, kernel, cron, now, ticks, nextId>>

Return(p) ==
    /\ calls[p].pc = "done"
    /\ calls' = [calls EXCEPT ![p] = IdleCall]
    /\ UNCHANGED <<boot, userVars, system, clients, conf, kernel, cron, now, ticks, nextId>>

----------------------------------------------------------------------------
(* WireGuard.getClients: one view per client of the registry, its runtime   *)
(* fields filled from the records of wg.dump() by public key.               *)

View(client) ==
    [id |-> client.id, name |-> client.name, enabled |-> client.enabled,
     address4 |-> client.address4, address6 |-> client.address6,
     publicKey |-> client.publicKey, expiresAt |-> client.expiresAt,
     oneTimeLink |-> client.oneTimeLink,
     persistentKeepalive |-> Null, latestHandshakeAt |-> Null, endpoint |-> Null,
     transferRx |-> Null, transferTx |-> Null]

Views(cs) == [k \in 1..Len(cs) |-> View(cs[k])]

Filled(view, rec) ==
    [view EXCEPT !.latestHandshakeAt = rec.latestHandshakeAt,
                 !.endpoint = rec.endpoint,
                 !.transferRx = rec.transferRx,
                 !.transferTx = rec.transferTx,
                 !.persistentKeepalive = rec.persistentKeepalive]

ApplyRecord_first(views, rec) ==
    IF Len(views) = 0 THEN views ELSE [views EXCEPT ![1] = Filled(@, rec)]

(* The callback of dump.forEach: clients.find by public key, then the       *)
(* five assignments.                                                        *)
ApplyRecord(views, rec) ==
    LET hits == { k \in 1..Len(views) : views[k].publicKey = rec.publicKey }
    IN  IF hits = {} THEN views
        ELSE [views EXCEPT ![Lowest(hits)] = Filled(@, rec)]

RECURSIVE ApplyDump(_, _, _)
ApplyDump(views, dump, i) ==
    IF i > Len(dump) THEN views
    ELSE ApplyDump(ApplyRecord(views, dump[i]), dump, i + 1)

(* getClients up to `await Database.getClients()` *)
getClients(p) ==
    /\ calls[p].pc = "idle"
    /\ calls' = [calls EXCEPT ![p] =
          [Begin("getClients", 0) EXCEPT !.pc = "g_views", !.ref = findAll(clients)]]
    /\ UNCHANGED <<boot, userVars, system, clients, conf, kernel, cron, now, ticks, nextId>>

(* ... the views are built, up to `await wg.dump()` *)
getClients_views(p) ==
    /\ calls[p].pc = "g_views"
    /\ calls' = [calls EXCEPT ![p].pc = "g_dump",
                              ![p].content = Views(Deref(calls[p].ref, clients))]
    /\ UNCHANGED <<boot, userVars, system, clients, conf, kernel, cron, now, ticks, nextId>>

(* ... and the dump is merged in. *)
getClients_dump(p, dump) ==
    /\ calls[p].pc = "g_dump"
    /\ calls' = [calls EXCEPT ![p].pc = "done", ![p].status = 200,
                              ![p].dump = dump,
                              ![p].content = ApplyDump(calls[p].content, dump, 1)]
    /\ UNCHANGED <<boot, userVars, system, clients, conf, kernel, cron, now, ticks, nextId>>

----------------------------------------------------------------------------
(* WireGuard.cronJob: one reconciliation pass.  Each loop iterates over     *)
(* Object.values(clients), taken when the loop is entered.                  *)

IdsOf(cs) == [k \in 1..Len(cs) |-> cs[k].id]

IsExpiredClient(cs, id, t) ==
    LET c == findById(cs, id)
    IN  /\ ~IsNull(c)
        /\ Val(c).enabled
        /\ ~IsNull(Val(c).expiresAt)
        /\ Expired(t, Val(Val(c).expiresAt))

IsExpiredLink(cs, id, t) ==
    LET c == findById(cs, id)
    IN  /\ ~IsNull(c)
        /\ ~IsNull(Val(c).oneTimeLink)
        /\ Expired(t, Val(Val(c).oneTimeLink).expiresAt)

(* The positions from i on whose iteration reaches an awaited repository call. *)
ExpireHits(snap, i, cs, t) == { j \in i..Len(snap) : IsExpiredClient(cs, snap[j], t) }
LinkHits(snap, i, cs, t) == { j \in i..Len(snap) : IsExpiredLink(cs, snap[j], t) }

cronJob ==
    /\ cron.pc = "idle"
    /\ cron' = [IdleCron EXCEPT !.pc = "begin", !.ref = findAll(clients),
                                !.pre = clients, !.t0 = now]
    /\ UNCHANGED <<boot, userVars, system, clients, conf, kernel, calls, now, ticks, nextId>>

(* Entering the second loop (or skipping it) and running it up to its next *)
(* awaited call; the pass ends when there is none.                          *)
LinksFrom(snap, i) ==
    LET hits == LinkHits(snap, i, Deref(cron.ref, clients), now)
    IN  IF hits = {}
        THEN /\ cron' = [cron EXCEPT !.pc = "done", !.snap = snap]
             /\ UNCHANGED clients
        ELSE /\ clients' = deleteOneTimeLink(clients, snap[Lowest(hits)], now)
             /\ cron' = [cron EXCEPT !.pc = "links", !.snap = snap, !.i = Lowest(hits) + 1]

EnterLinks ==
    IF system.oneTimeLinks.enabled
    THEN LinksFrom(IdsOf(Deref(cron.ref, clients)), 1)
    ELSE /\ cron' = [cron EXCEPT !.pc = "done"]
         /\ UNCHANGED clients

ExpireFrom(snap, i) ==
    LET hits == ExpireHits(snap, i, Deref(cron.ref, clients), now)
    IN  IF hits = {}
        THEN EnterLinks
        ELSE /\ clients' = toggle(clients, snap[Lowest(hits)], FALSE)
             /\ cron' = [cron EXCEPT !.pc = "expire", !.snap = snap, !.i = Lowest(hits) + 1,
                                     !.disabled = @ \cup { snap[Lowest(hits)] }]

cronJob_begin ==
    /\ cron.pc = "begin"
    /\ IF system.clientExpiration.enabled
       THEN ExpireFrom(IdsOf(Deref(cron.ref, clients)), 1)
       ELSE EnterLinks
    /\ UNCHANGED <<boot, userVars, system, conf, kernel, calls, now, ticks, nextId>>

cronJob_expire ==
    /\ cron.pc = "expire"
    /\ ExpireFrom(cron.snap, cron.i)
    /\ UNCHANGED <<boot, userVars, system, conf, kernel, calls, now, ticks, nextId>>

cronJob_links ==
    /\ cron.pc = "links"
    /\ LinksFrom(cron.snap, cron.i)
    /\ UNCHANGED <<boot, userVars, system, conf, kernel, calls, now, ticks, nextId>>

cronJob_return ==
    /\ cron.pc = "done"
    /\ cron' = IdleCron
    /\ UNCHANGED <<boot, userVars, system, clients, conf, kernel, calls, now, ticks, nextId>>

(* The clock advances between any two steps. *)
TickSteps == { EraseDelay, DayMs }

Tick(d) ==
    /\ ticks < MaxTicks
    /\ now' = now + d
    /\ ticks' = ticks + 1
    /\ UNCHANGED <<boot, userVars, system, clients, conf, kernel, calls, cron, nextId>>

----------------------------------------------------------------------------
(* WireGuard.Startup and WireGuard.startCronJob.  A timer is armed or not;  *)
(* its firing stands for the passing of its delay.  The connected flag of   *)
(* the provider is set by LowDB.connect and cleared by LowDB.disconnect,    *)
(* which are called from outside the service.                               *)

NoTimer == [armed |-> FALSE, delay |-> 0]
Timer(delay) == [armed |-> TRUE, delay |-> delay]

IdleBoot ==
    [pc |-> "idle", timer |-> NoTimer, connected |-> FALSE, seen |-> FALSE,
     ev |-> <<>>, lastThrew |-> FALSE]

connect ==
    /\ ~boot.connected
    /\ boot' = [boot EXCEPT !.connected = TRUE]
    /\ UNCHANGED <<wgVars, userVars>>

disconnect ==
    /\ boot.connected
    /\ boot' = [boot EXCEPT !.connected = FALSE]
    /\ UNCHANGED <<wgVars, userVars>>

(* function wait(): whether it resolves the promise Startup awaits *)
wait_resolves(connected) == TRUE

wait(connected) == connected

Startup ==
    /\ boot.pc = "idle"
    /\ boot' = [boot EXCEPT !.pc = "wait", !.timer = Timer(StartupDelay)]
    /\ UNCHANGED <<wgVars, userVars>>

(* The timer set at line 330 fires and runs wait() once. *)
Startup_wait ==
    /\ boot.pc = "wait"
    /\ boot.timer.armed
    /\ boot' = IF wait(boot.connected)
               THEN [boot EXCEPT !.pc = "save", !.timer = NoTimer,
                                 !.seen = boot.connected,
                                 !.ev = Append(boot.ev, "connected")]
               ELSE [boot EXCEPT !.timer = NoTimer]
    /\ UNCHANGED <<wgVars, userVars>>

Startup_save ==
    /\ boot.pc = "save"
    /\ conf' = RenderConfig(system, clients)
    /\ boot' = [boot EXCEPT !.pc = "down", !.ev = Append(boot.ev, "write")]
    /\ UNCHANGED <<userVars, system, clients, kernel, calls, cron, now, ticks, nextId>>

(* wg.down().catch(() => {}): whether or not it fails, Startup goes on. *)
Startup_down(ok) ==
    /\ boot.pc = "down"
    /\ kernel' = IF ok THEN <<>> ELSE kernel
    /\ boot' = [boot EXCEPT !.pc = "up", !.ev = Append(boot.ev, "down")]
    /\ UNCHANGED <<userVars, system, clients, conf, calls, cron, now, ticks, nextId>>

(* wg.up(): a failure is rethrown, Startup rejects and the process exits. *)
Startup_up(ok) ==
    /\ boot.pc = "up"
    /\ kernel' = IF ok THEN conf ELSE kernel
    /\ boot' = IF ok
               THEN [boot EXCEPT !.pc = "sync", !.ev = Append(boot.ev, "up")]
               ELSE [boot EXCEPT !.pc = "exited", !.ev = Append(boot.ev, "up_failed")]
    /\ UNCHANGED <<userVars, system, clients, conf, calls, cron, now, ticks, nextId>>

Startup_sync ==
    /\ boot.pc = "sync"
    /\ kernel' = conf
    /\ boot' = [boot EXCEPT !.pc = "loop", !.ev = Append(boot.ev, "sync")]
    /\ UNCHANGED <<userVars, system, clients, conf, calls, cron, now, ticks, nextId>>

(* startCronJob calls cronJob, which runs up to its first await. *)
startCronJob ==
    /\ boot.pc = "loop"
    /\ cron.pc = "idle"
    /\ cron' = [IdleCron EXCEPT !.pc = "begin", !.ref = findAll(clients),
                                !.pre = clients, !.t0 = now]
    /\ boot' = [boot EXCEPT !.pc = "pass",
                            !.ev = IF Len(boot.ev) = 5 THEN Append(boot.ev, "pass")
                                   ELSE boot.ev]
    /\ UNCHANGED <<userVars, system, clients, conf, kernel, calls, now, ticks, nextId>>

(* What follows the pass, resolved or rejected: the timer of line 360.      *)
Reschedule_never(threw) == NoTimer

Reschedule(threw) == Timer(CronInterval)

(* The pass resolved. *)
startCronJob_resolved ==
    /\ boot.pc = "pass"
    /\ cron.pc = "done"
    /\ cron' = IdleCron
    /\ boot' = [boot EXCEPT !.pc = "sleep", !.timer = Reschedule(FALSE),
                            !.lastThrew = FALSE]
    /\ UNCHANGED <<userVars, system, clients, conf, kernel, calls, now, ticks, nextId>>

(* The pass rejected at one of its awaits (a repository call threw); the    *)
(* catch handler logs the error.                                            *)
startCronJob_caught ==
    /\ boot.pc = "pass"
    /\ cron.pc \in { "begin", "expire", "links" }
    /\ cron' = IdleCron
    /\ boot' = [boot EXCEPT !.pc = "sleep", !.timer = Reschedule(TRUE),
                            !.lastThrew = TRUE]
    /\ UNCHANGED <<userVars, system, clients, conf, kernel, calls, now, ticks, nextId>>

(* The timer of line 360 fires. *)
startCronJob_timer ==
    /\ boot.pc = "sleep"
    /\ boot.timer.armed
    /\ boot' = [boot EXCEPT !.pc = "loop", !.timer = NoTimer]
    /\ UNCHANGED <<wgVars, userVars>>

----------------------------------------------------------------------------
(* The user repositories: LowDBUser (file-backed) and the in-memory         *)
(* provider.  A user is [id, username, password, role, enabled].            *)

(* Password helpers of server/utils/password: a hash is tagged with the     *)
(* password it was made from; strong passwords are the listed ones.         *)
StrongPasswords == { "Str0ng!Passw0rd" }
isPasswordStrong(password) == password \in StrongPasswords
hashPassword(password) == << "hash", password >>

IdleUserCall ==
    [pc |-> "idle", op |-> "none", backend |-> "none", username |-> "", password |-> "",
     isUserEmpty |-> FALSE, user |-> Null, found |-> FALSE, error |-> ""]

UserBegin(backend, op) == [IdleUserCall EXCEPT !.backend = backend, !.op = op]

(* users.find((user) => user.username === username) *)
FindByUsername(us, username) == { k \in 1..Len(us) : us[k].username = username }

(* users.findIndex((user) => user.id === id): 0 when there is none *)
FindIndex(us, id) ==
    IF \E k \in 1..Len(us) : us[k].id = id
    THEN Lowest({ k \in 1..Len(us) : us[k].id = id })
    ELSE 0

(* users.find((user) => user.id === id) *)
UserById(us, id) == IF FindIndex(us, id) = 0 THEN Null ELSE Some(us[FindIndex(us, id)])

(* users.splice(idx, 1) *)
Splice(us, idx) == SubSeq(us, 1, idx - 1) \o SubSeq(us, idx + 1, Len(us))

Role(isUserEmpty) == IF isUserEmpty THEN "ADMIN" ELSE "CLIENT"

NewUser(id, username, hash, isUserEmpty) ==
    [id |-> id, username |-> username, password |-> hash,
     role |-> Role(isUserEmpty), enabled |-> TRUE]

(* LowDBUser.create up to `await hashPassword(password)` *)
LowDBUser_create(p, username, password) ==
    /\ ucalls[p].pc = "idle"
    /\ ucalls' = [ucalls EXCEPT ![p] =
          IF FindByUsername(users, username) # {}
          THEN [UserBegin("lowdb", "create") EXCEPT
                   !.pc = "done", !.username = username, !.password = password,
                   !.error = "409"]
          ELSE [UserBegin("lowdb", "create") EXCEPT
                   !.pc = "hash", !.username = username, !.password = password,
                   !.isUserEmpty = (Len(users) = 0)]]
    /\ UNCHANGED <<wgVars, boot, provider, users, memory, created>>

(* ... and from there on: the new user is pushed. *)
LowDBUser_create_push(p) ==
    /\ ucalls[p].pc = "hash"
    /\ LET c  == ucalls[p]
           id == << "uuid", Len(created) + 1 >>
           u  == NewUser(id, c.username, hashPassword(c.password), c.isUserEmpty)
       IN  /\ users' = Append(users, u)
           /\ created' = Append(created, [backend |-> "lowdb", id |-> id, role |-> u.role])
    /\ ucalls' = [ucalls EXCEPT ![p].pc = "done"]
    /\ UNCHANGED <<wgVars, boot, provider, memory>>

(* LowDBUser.update up to `await this.findById(user.id)` *)
LowDBUser_update(p, user) ==
    /\ ucalls[p].pc = "idle"
    /\ ucalls' = [ucalls EXCEPT ![p] =
          [UserBegin("lowdb", "update") EXCEPT
              !.pc = "found", !.user = Some(user),
              !.found = ~IsNull(UserById(users, user.id))]]
    /\ UNCHANGED <<wgVars, boot, provider, users, memory, created>>

(* `oldUser = user` assigns the local variable; the document is written as  *)
(* it is.                                                                   *)
LowDBUser_update_write(p) ==
    /\ ucalls[p].pc = "found"
    /\ ucalls[p].backend = "lowdb"
    /\ ucalls' = [ucalls EXCEPT ![p].pc = "done"]
    /\ UNCHANGED <<wgVars, boot, provider, users, memory, created>>

LowDBUser_delete(p, id) ==
    /\ ucalls[p].pc = "idle"
    /\ LET idx == FindIndex(users, id)
       IN  users' = IF idx # 0 THEN Splice(users, idx) ELSE users
    /\ ucalls' = [ucalls EXCEPT ![p] = [UserBegin("lowdb", "delete") EXCEPT !.pc = "done"]]
    /\ UNCHANGED <<wgVars, boot, provider, memory, created>>

(* InMemory.newUserWithPassword: no await before the push. *)
newUserWithPassword(p, username, password) ==
    /\ ucalls[p].pc = "idle"
    /\ LET begin == [UserBegin("memory", "create") EXCEPT
                        !.pc = "done", !.username = username, !.password = password]
           id    == << "n", Len(memory) + 1 >>
           u     == NewUser(id, username, hashPassword(password), Len(memory) = 0)
       IN  IF Len(username) < MinUsernameLen
           THEN /\ ucalls' = [ucalls EXCEPT ![p] = [begin EXCEPT !.error = "ERROR_USERNAME_LEN"]]
                /\ UNCHANGED <<memory, created>>
           ELSE IF ~isPasswordStrong(password)
           THEN /\ ucalls' = [ucalls EXCEPT ![p] = [begin EXCEPT !.error = "ERROR_PASSWORD_REQ"]]
                /\ UNCHANGED <<memory, created>>
           ELSE IF FindByUsername(memory, username) # {}
           THEN /\ ucalls' = [ucalls EXCEPT ![p] = [begin EXCEPT !.error = "ERROR_USER_EXIST"]]
                /\ UNCHANGED <<memory, created>>
           ELSE /\ ucalls' = [ucalls EXCEPT ![p] = begin]
                /\ memory' = Append(memory, u)
                /\ created' = Append(created,
                                 [backend |-> "memory", id |-> id, role |-> u.role])
    /\ UNCHANGED <<wgVars, boot, provider, users>>

(* InMemory.saveUser up to `await this.getUser(user)` *)
saveUser(p, user) ==
    /\ ucalls[p].pc = "idle"
    /\ ucalls' = [ucalls EXCEPT ![p] =
          [UserBegin("memory", "update") EXCEPT
              !.pc = "found", !.user = Some(user),
              !.found = ~IsNull(UserById(memory, user.id))]]
    /\ UNCHANGED <<wgVars, boot, provider, users, memory, created>>

(* `_user = user` assigns the local variable. *)
saveUser_assign(p) ==
    /\ ucalls[p].pc = "found"
    /\ ucalls[p].backend = "memory"
    /\ ucalls' = [ucalls EXCEPT ![p].pc = "done"]
    /\ UNCHANGED <<wgVars, boot, provider, users, memory, created>>

deleteUser(p, id) ==
    /\ ucalls[p].pc = "idle"
    /\ LET idx == FindIndex(memory, id)
       IN  memory' = IF idx # 0 THEN Splice(memory, idx) ELSE memory
    /\ ucalls' = [ucalls EXCEPT ![p] = [UserBegin("memory", "delete") EXCEPT !.pc = "done"]]
    /\ UNCHANGED <<wgVars, boot, provider, users, created>>

UserReturn(p) ==
    /\ ucalls[p].pc = "done"
    /\ ucalls' = [ucalls EXCEPT ![p] = IdleUserCall]
    /\ UNCHANGED <<wgVars, boot, provider, users, memory, created>>

----------------------------------------------------------------------------
(* The file-backed provider (class LowDB).  #db is a reference to the Low   *)
(* object or undefined; doc is what that object holds.  Each repository     *)
(* keeps the reference its constructor was given.                           *)

Repositories == { "system", "user", "client" }

RepositoryOps ==
    { << "system", "get" >>,
      << "user", "findAll" >>, << "user", "findById" >>, << "user", "create" >>,
      << "user", "update" >>, << "user", "delete" >>,
      << "client", "findAll" >>, << "client", "findById" >>, << "client", "create" >>,
      << "client", "delete" >>, << "client", "toggle" >>, << "client", "updateName" >>,
      << "client", "updateAddress4" >>, << "client", "updateExpirationDate" >>,
      << "client", "deleteOneTimeLink" >>, << "client", "createOneTimeLink" >> }

(* Construction: the field initialisers run in order, `#db` (declared       *)
(* without a value) first, then the three repositories with the value #db   *)
(* has at that moment.                                                      *)
NewLowDB ==
    LET db == "undefined"
    IN  [pc |-> "idle", db |-> db, doc |-> "none", connected |-> FALSE,
         repos |-> [r \in Repositories |-> db],
         failed |-> FALSE, last |-> Null]

(* LowDB.connect up to `await this.__init()`; when already connected it   *)
(* returns at once and changes nothing.                                     *)
LowDB_connect ==
    /\ provider.pc = "idle"
    /\ ~provider.connected
    /\ provider' = [provider EXCEPT !.pc = "init"]
    /\ UNCHANGED <<wgVars, boot, users, memory, ucalls, created>>

(* __init: JSONFilePreset loads the file (or creates it) and #db is         *)
(* assigned; when it throws, connect throws 'Failed to initialize Database'.*)
LowDB_init(ok) ==
    /\ provider.pc = "init"
    /\ provider' = IF ok
                   THEN [provider EXCEPT !.pc = "migrate", !.db = "assigned",
                                         !.doc = "loaded"]
                   ELSE [provider EXCEPT !.pc = "idle", !.failed = TRUE]
    /\ UNCHANGED <<wgVars, boot, users, memory, ucalls, created>>

(* migrationRunner(this.#db), then `this.#connected = true` *)
LowDB_migrate(ok) ==
    /\ provider.pc = "migrate"
    /\ provider' = IF ok
                   THEN [provider EXCEPT !.pc = "idle", !.doc = "migrated",
                                         !.connected = TRUE, !.failed = FALSE]
                   ELSE [provider EXCEPT !.pc = "idle", !.failed = TRUE]
    /\ UNCHANGED <<wgVars, boot, users, memory, ucalls, created>>

LowDB_disconnect ==
    /\ provider.pc = "idle"
    /\ provider.connected
    /\ provider' = [provider EXCEPT !.connected = FALSE]
    /\ UNCHANGED <<wgVars, boot, users, memory, ucalls, created>>

(* What a repository method does first: it reads `this.#db.data`.  On an    *)
(* undefined #db that is a TypeError; LowDBSystem.get throws ERROR_INIT     *)
(* when data.system is null, which it is until the migrations have run.     *)
Outcome(db, doc, repo, op) ==
    IF db = "undefined" THEN "TypeError"
    ELSE IF repo = "system" /\ doc # "migrated" THEN "ERROR_INIT"
    ELSE "ok"

(* A call of a repository method, at any time. *)
RepositoryCall(repo, op) ==
    /\ provider' = [provider EXCEPT !.last =
          Some([repo |-> repo, op |-> op,
                connected |-> provider.connected,
                failed |-> provider.failed /\ provider.pc = "idle",
                outcome |-> Outcome(provider.repos[repo], provider.doc, repo, op)])]
    /\ UNCHANGED <<wgVars, boot, users, memory, ucalls, created>>

----------------------------------------------------------------------------
(* Initial states: an empty registry, no config file yet. *)

Pool4(prefix) == [ip |-> << 10, 8, 0, 0 >>, prefix |-> prefix]
Pool6(prefix) ==
    [ip |-> << 64972, 44436, 47823, 24996, 0, 0, 51966, 0 >>, prefix |-> prefix]

System(p4, p6, expiration, links) ==
    [interface |-> [privateKey |-> "serverPrivateKey"],
     userConfig |-> [address4Range |-> Pool4(p4), address6Range |-> Pool6(p6)],
     clientExpiration |-> [enabled |-> expiration],
     oneTimeLinks |-> [enabled |-> links]]

InitRest ==
    /\ clients = <<>>
    /\ conf = <<>>
    /\ kernel = <<>>
    /\ calls = [p \in Procs |-> IdleCall]
    /\ cron = IdleCron
    /\ now = 0
    /\ ticks = 0
    /\ nextId = 1
    /\ boot = IdleBoot
    /\ users = <<>>
    /\ memory = <<>>
    /\ ucalls = [p \in Procs |-> IdleUserCall]
    /\ created = <<>>
    /\ provider = NewLowDB

(* The ids a caller may pass: those handed out so far and one that is not   *)
(* in the registry.                                                         *)
Ids == 1..nextId

Names == { "a", "b" }
Dates == { Null, Some(0) }
Addresses4 == { << 10, 8, 0, 2 >>, << 10, 8, 0, 3 >>, << 10, 8, 1, 2 >>, << 10, 8, 0, 256 >> }

CallSteps(p) ==
    \/ createClient_read(p)
    \/ createClient_keys(p)
    \/ createClient_alloc(p)
    \/ saveWireguardConfig_read(p)
    \/ saveWireguardConfig_render(p)
    \/ saveWireguardConfig_written(p)
    \/ syncWireguardConfig(p)
    \/ Return(p)

(* Spec: the address-bearing operations, run one at a time, over pools of   *)
(* one usable address (/30, /126) and of five (/29, /125).                  *)
Init ==
    /\ \E p4 \in {29, 30}, p6 \in {125, 126} : system = System(p4, p6, TRUE, TRUE)
    /\ InitRest

Next ==
    \/ AllIdle /\ nextId <= MaxIds /\ createClient(1, "a", Null)
    \/ \E id \in Ids : AllIdle /\ deleteClient(1, id)
    \/ \E id \in Ids : AllIdle /\ enableClient(1, id)
    \/ \E id \in Ids : AllIdle /\ disableClient(1, id)
    \/ \E id \in Ids, a \in Addresses4 : AllIdle /\ updateClientAddress(1, id, a)
    \/ CallSteps(1)

Spec == Init /\ [][Next]_vars

(* SpecConc: createClient and deleteClient calls in flight together,        *)
(* interleaved at their awaits.                                             *)
InitConc ==
    /\ system = System(29, 125, TRUE, TRUE)
    /\ InitRest

NextConc ==
    \/ \E p \in Procs : nextId <= MaxConcIds /\ createClient(p, "a", Null)
    \/ \E p \in Procs, id \in Ids : deleteClient(p, id)
    \/ \E p \in Procs : CallSteps(p)

SpecConc == InitConc /\ [][NextConc]_vars

(* SpecSeq: every mutating operation of the service, run one at a time. *)
InitSeq ==
    /\ system = System(29, 125, TRUE, TRUE)
    /\ InitRest

NextSeq ==
    \/ AllIdle /\ nextId <= MaxSeqIds /\ createClient(1, "a", Null)
    \/ \E id \in Ids : AllIdle /\ deleteClient(1, id)
    \/ \E id \in Ids : AllIdle /\ enableClient(1, id)
    \/ \E id \in Ids : AllIdle /\ disableClient(1, id)
    \/ \E id \in Ids : AllIdle /\ updateClientName(1, id, "b")
    \/ \E id \in Ids, a \in { << 10, 8, 0, 2 >>, << 10, 8, 0, 256 >> } :
          AllIdle /\ updateClientAddress(1, id, a)
    \/ \E id \in Ids, d \in Dates : AllIdle /\ updateClientExpireDate(1, id, d)
    \/ \E id \in Ids : AllIdle /\ generateOneTimeLink(1, id, 0)
    \/ \E id \in Ids : AllIdle /\ eraseOneTimeLink(1, id)
    \/ CallSteps(1)

SpecSeq == InitSeq /\ [][NextSeq]_vars

(* SpecCron: reconciliation passes between the operations that set         *)
(* expiry dates and one-time links, with the clock advancing.  No step of   *)
(* a call reads the clock after its first, so an advance during a call is   *)
(* the same as one right after it; the clock does advance during a pass.    *)
InitCron ==
    /\ \E e \in BOOLEAN, l \in BOOLEAN : system = System(29, 125, e, l)
    /\ InitRest

NextCron ==
    \/ \E d \in Dates : AllIdle /\ nextId <= MaxCronIds /\ createClient(1, "a", d)
    \/ \E id \in Ids : AllIdle /\ generateOneTimeLink(1, id, 0)
    \/ \E id \in Ids : AllIdle /\ eraseOneTimeLink(1, id)
    \/ CallSteps(1)
    \/ AllIdle /\ cronJob
    \/ cronJob_begin
    \/ cronJob_expire
    \/ cronJob_links
    \/ cronJob_return
    \/ \E d \in TickSteps : calls[1].pc = "idle" /\ Tick(d)

SpecCron == InitCron /\ [][NextCron]_vars

(* SpecErr: mutating operations, one at a time, whose sync may fail. *)
InitErr ==
    /\ system = System(29, 125, TRUE, TRUE)
    /\ InitRest

NextErr ==
    \/ AllIdle /\ nextId <= MaxErrIds /\ createClient(1, "a", Null)
    \/ \E id \in Ids : AllIdle /\ deleteClient(1, id)
    \/ \E id \in Ids : AllIdle /\ enableClient(1, id)
    \/ \E id \in Ids : AllIdle /\ disableClient(1, id)
    \/ CallSteps(1)
    \/ syncWireguardConfig_fails(1)

SpecErr == InitErr /\ [][NextErr]_vars

(* SpecBoot: the service starts over a registry left by an earlier run,     *)
(* some of whose clients and links have expired; the provider connects and  *)
(* disconnects at any time.  Every continuation that is ready to run does   *)
(* run (the event loop), and an armed timer fires.                          *)
StoredClient(k) ==
    [id |-> k, name |-> "a",
     address4 |-> << 10, 8, 0, k + 1 >>,
     address6 |-> stringifyIp6(SubSeq(Pool6(125).ip, 1, 7), k + 1),
     publicKey |-> getPublicKey(generatePrivateKey(k)), enabled |-> TRUE,
     expiresAt |-> IF k % 2 = 1 THEN Some(EndOfDayMs) ELSE Null,
     oneTimeLink |-> IF k % 2 = 1
                     THEN Some([oneTimeLink |-> OneTimeLinkToken(k, 0),
                                expiresAt |-> OneTimeLinkTTL])
                     ELSE Null]

InitBoot ==
    /\ \E e \in BOOLEAN, l \in BOOLEAN : system = System(29, 125, e, l)
    /\ \E n \in 0..MaxBootClients :
         /\ clients = [k \in 1..n |-> StoredClient(k)]
         /\ nextId = n + 1
    /\ conf = <<>>
    /\ kernel = <<>>
    /\ calls = [p \in Procs |-> IdleCall]
    /\ cron = IdleCron
    /\ now = DayMs
    /\ ticks = 0
    /\ boot = IdleBoot
    /\ users = <<>>
    /\ memory = <<>>
    /\ ucalls = [p \in Procs |-> IdleUserCall]
    /\ created = <<>>
    /\ provider = NewLowDB

BootSteps ==
    \/ Startup
    \/ Startup_wait
    \/ Startup_save
    \/ \E ok \in BOOLEAN : Startup_down(ok)
    \/ \E ok \in BOOLEAN : Startup_up(ok)
    \/ Startup_sync
    \/ startCronJob
    \/ cronJob_begin
    \/ cronJob_expire
    \/ cronJob_links
    \/ startCronJob_resolved
    \/ startCronJob_caught
    \/ startCronJob_timer

NextBoot ==
    \/ connect
    \/ disconnect
    \/ BootSteps

SpecBoot == InitBoot /\ [][NextBoot]_vars /\ WF_vars(BootSteps)

(* SpecUsers: create, update and delete calls on both user repositories,    *)
(* two at a time, interleaved at their awaits.                              *)
Usernames == { "admin", "alice123", "bobby123" }
Passwords == { "weak", "Str0ng!Passw0rd" }
NoUserId == << "uuid", 0 >>

UserIds(us) == { us[k].id : k \in 1..Len(us) } \cup { NoUserId }
UpdatesOf(us) ==
    { [us[k] EXCEPT !.enabled = FALSE] : k \in 1..Len(us) }
        \cup { NewUser(NoUserId, "nobody00", hashPassword("weak"), FALSE) }

Creating == { p \in Procs : ucalls[p].pc = "hash" }

InitUsers ==
    /\ system = System(29, 125, TRUE, TRUE)
    /\ InitRest

NextUsers ==
    \/ \E p \in Procs, u \in Usernames, pw \in Passwords :
          /\ Len(created) + Cardinality(Creating) < MaxUsers
          /\ LowDBUser_create(p, u, pw)
    \/ \E p \in Procs : LowDBUser_create_push(p)
    \/ \E p \in Procs, user \in UpdatesOf(users) : LowDBUser_update(p, user)
    \/ \E p \in Procs : LowDBUser_update_write(p)
    \/ \E p \in Procs, id \in UserIds(users) : LowDBUser_delete(p, id)
    \/ \E p \in Procs, u \in Usernames, pw \in Passwords :
          /\ Len(created) + Cardinality(Creating) < MaxUsers
          /\ newUserWithPassword(p, u, pw)
    \/ \E p \in Procs, user \in UpdatesOf(memory) : saveUser(p, user)
    \/ \E p \in Procs : saveUser_assign(p)
    \/ \E p \in Procs, id \in UserIds(memory) : deleteUser(p, id)
    \/ \E p \in Procs : UserReturn(p)

SpecUsers == InitUsers /\ [][NextUsers]_vars

(* SpecFrame: the operations that take a client id, and getClients, one   *)
(* at a time over a registry of stored clients.  A dump lists each peer of  *)
(* the interface once; it may list a peer that is not in the registry.      *)
DumpRecord(k) ==
    [publicKey |-> getPublicKey(generatePrivateKey(k)),
     latestHandshakeAt |-> IF k = 1 THEN Null ELSE Some(k),
     endpoint |-> Some(<< "endpoint", k >>),
     transferRx |-> Some(10 * k), transferTx |-> Some(20 * k),
     persistentKeepalive |-> Some("off")]

Dumps ==
    { <<>>, << DumpRecord(1) >>, << DumpRecord(0), DumpRecord(2) >>,
      << DumpRecord(2), DumpRecord(0), DumpRecord(1) >> }

InitFrame ==
    /\ system = System(29, 125, TRUE, TRUE)
    /\ clients = [k \in 1..MaxFrameClients |-> StoredClient(k)]
    /\ nextId = MaxFrameClients + 1
    /\ conf = <<>>
    /\ kernel = <<>>
    /\ calls = [p \in Procs |-> IdleCall]
    /\ cron = IdleCron
    /\ now = DayMs
    /\ ticks = 0
    /\ boot = IdleBoot
    /\ users = <<>>
    /\ memory = <<>>
    /\ ucalls = [p \in Procs |-> IdleUserCall]
    /\ created = <<>>
    /\ provider = NewLowDB

NextFrame ==
    \/ \E id \in Ids : AllIdle /\ deleteClient(1, id)
    \/ \E id \in Ids : AllIdle /\ enableClient(1, id)
    \/ \E id \in Ids : AllIdle /\ disableClient(1, id)
    \/ \E id \in Ids : AllIdle /\ updateClientName(1, id, "b")
    \/ \E id \in Ids : AllIdle /\ updateClientAddress(1, id, << 10, 8, 0, 5 >>)
    \/ \E id \in Ids : AllIdle /\ updateClientExpireDate(1, id, Null)
    \/ \E id \in Ids : AllIdle /\ generateOneTimeLink(1, id, 0)
    \/ AllIdle /\ getClients(1)
    \/ getClients_views(1)
    \/ \E dump \in Dumps : getClients_dump(1, dump)
    \/ saveWireguardConfig_read(1)
    \/ saveWireguardConfig_render(1)
    \/ saveWireguardConfig_written(1)
    \/ syncWireguardConfig(1)
    \/ Return(1)

SpecFrame == InitFrame /\ [][NextFrame]_vars

(* SpecMemory: users created and deleted in the in-memory provider, one    *)
(* call at a time.                                                          *)
InitMemory ==
    /\ system = System(29, 125, TRUE, TRUE)
    /\ InitRest

NextMemory ==
    \/ \E u \in Usernames, pw \in Passwords :
          Len(created) < MaxMemUsers /\ newUserWithPassword(1, u, pw)
    \/ \E id \in UserIds(memory) : deleteUser(1, id)
    \/ \E user \in UpdatesOf(memory) : saveUser(1, user)
    \/ saveUser_assign(1)
    \/ UserReturn(1)

SpecMemory == InitMemory /\ [][NextMemory]_vars

(* SpecProvider: the provider connects (loading or migrating may fail),   *)
(* disconnects, and its repositories are called at any time.                *)
InitProvider ==
    /\ system = System(29, 125, TRUE, TRUE)
    /\ InitRest

NextProvider ==
    \/ LowDB_connect
    \/ \E ok \in BOOLEAN : LowDB_init(ok)
    \/ \E ok \in BOOLEAN : LowDB_migrate(ok)
    \/ LowDB_disconnect
    \/ \E call \in RepositoryOps : RepositoryCall(call[1], call[2])

SpecProvider == InitProvider /\ [][NextProvider]_vars

----------------------------------------------------------------------------
(* Claims checked under Spec *)

PastAlloc(c) == c.op = "createClient" /\ c.pc \notin {"idle", "c_read", "c_keys", "c_alloc"}
Created(c) == PastAlloc(c) /\ Len(c.ev) > 0
Failed409(c) == PastAlloc(c) /\ c.pc = "done" /\ c.status = 409

Range4 ==
    LET cidr4 == parseCidr4(system.userConfig.address4Range)
    IN  (cidr4.start + 2)..(cidr4.end - 1)
Range6 ==
    LET cidr6 == parseCidr6(system.userConfig.address6Range)
    IN  (cidr6.start + 2)..(cidr6.end - 1)

(* The numbers of the pool's range that no client of cs holds. *)
Free4(cs) == { n \in Range4 : \A k \in 1..Len(cs) : Ip4Number(cs[k].address4) # n }
Free6(cs) ==
    { n \in Range6 : \A k \in 1..Len(cs) :
        ~ ( /\ SubSeq(cs[k].address6, 1, 7) = SubSeq(system.userConfig.address6Range.ip, 1, 7)
            /\ cs[k].address6[8] = n ) }

\* C1: in every reachable state no two distinct clients have the same
\* address4 and no two distinct clients have the same address6.
C1_AddressesUnique ==
    \A i, j \in 1..Len(clients) :
        i # j => /\ clients[i].address4 # clients[j].address4
                 /\ clients[i].address6 # clients[j].address6

\* C3: when each pool has a free address in [start + 2, end - 1], createClient
\* adds a client whose address4 and address6 are the lowest addresses of
\* those ranges that no existing client holds.
C3_LowestFreeAssigned ==
    \A p \in Procs :
        LET c == calls[p]
            old == c.pre
        IN  PastAlloc(c) =>
              /\ (Free4(old) # {} /\ Free6(old) # {}) => Created(c)
              /\ Created(c) =>
                   /\ Has(clients, c.id)
                   /\ LET new == Val(findById(clients, c.id))
                      IN  /\ Free4(old) # {} /\ Free6(old) # {}
                          /\ isIPv4(new.address4)
                          /\ Ip4Number(new.address4) = Lowest(Free4(old))
                          /\ SubSeq(new.address6, 1, 7)
                                = SubSeq(system.userConfig.address6Range.ip, 1, 7)
                          /\ new.address6[8] = Lowest(Free6(old))

C3_Witness ==
    \E p \in Procs :
        LET c == calls[p]
        IN  /\ Created(c) /\ c.pc = "done" /\ Has(clients, c.id)
            /\ \E k \in 1..Len(c.pre) :
                 /\ Ip4Number(c.pre[k].address4)
                       > Ip4Number(Val(findById(clients, c.id)).address4)
                 /\ c.pre[k].address6[8] > Val(findById(clients, c.id)).address6[8]

\* C4: when the v4 pool or the v6 pool has no free address in
\* [start + 2, end - 1], createClient fails with 409, the registry is as it
\* was (no client added), the config file is not rewritten and sync is not
\* invoked.
C4_ExhaustedRejected ==
    \A p \in Procs :
        LET c == calls[p]
        IN  (PastAlloc(c) /\ (Free4(c.pre) = {} \/ Free6(c.pre) = {})) =>
              /\ c.pc = "done"
              /\ c.status = 409
              /\ clients = c.pre
              /\ ~Has(clients, c.id)
              /\ c.ev = <<>>

C4_Witness ==
    \E p \in Procs :
        /\ Failed409(calls[p])
        /\ Free4(calls[p].pre) # {}
        /\ Free6(calls[p].pre) = {}
        /\ calls[p].cause = "IPv6 Address Pool exhausted"

\* C5: the config written by the save step is one interface block followed
\* by exactly one peer block for each enabled client and none for a
\* disabled client.
C5_PeerPerEnabledClient ==
    \A p \in Procs :
        (calls[p].pc = "sync" /\ calls[p].ev = << "persist", "write" >>) =>
            /\ Len(conf) >= 1
            /\ conf[1].section = "Interface"
            /\ \A k \in 2..Len(conf) : conf[k].section = "Peer"
            /\ \A i \in 1..Len(clients) :
                 Cardinality({ k \in 2..Len(conf) : conf[k].key = clients[i].publicKey })
                    = IF clients[i].enabled THEN 1 ELSE 0
            /\ Len(conf) = 1 + Cardinality({ i \in 1..Len(clients) : clients[i].enabled })

C5_Witness ==
    \E p \in Procs :
        /\ calls[p].pc = "sync" /\ calls[p].ev = << "persist", "write" >>
        /\ \E i, j \in 1..Len(clients) : clients[i].enabled /\ ~clients[j].enabled
        /\ Len(conf) = 2

----------------------------------------------------------------------------
(* Claims checked under SpecConc *)

\* C2: two createClient calls, also when they are in flight together and
\* their awaited steps interleave, never leave two clients with equal
\* address4 or equal address6.
C2_ConcurrentCreatesDistinct ==
    /\ Cardinality(Taken4(clients)) = Len(clients)
    /\ Cardinality(Taken6(clients)) = Len(clients)
    /\ \A p, q \in Procs :
         (p # q /\ Created(calls[p]) /\ Created(calls[q])
              /\ Has(clients, calls[p].id) /\ Has(clients, calls[q].id)) =>
            /\ Val(findById(clients, calls[p].id)).address4
                  # Val(findById(clients, calls[q].id)).address4
            /\ Val(findById(clients, calls[p].id)).address6
                  # Val(findById(clients, calls[q].id)).address6

(* Both calls started from the same registry, before either persisted its  *)
(* client, and both clients are in the registry.                            *)
C2_Witness ==
    \E p, q \in Procs :
        /\ p # q
        /\ Created(calls[p]) /\ Created(calls[q])
        /\ calls[p].pre = calls[q].pre
        /\ Has(clients, calls[p].id) /\ Has(clients, calls[q].id)

----------------------------------------------------------------------------
(* Claims checked under SpecSeq *)

IsPrefix(s, t) == Len(s) <= Len(t) /\ \A k \in 1..Len(s) : s[k] = t[k]

\* C6: run one at a time, each successful mutating call persists its change,
\* then writes the config rendered from the registry, then invokes sync, in
\* that order; when it returns the config file is the rendering of the
\* current registry (and is what the kernel was synced to).
C6_PersistThenSaveThenSync ==
    \A p \in Procs :
        LET c == calls[p]
        IN  /\ IsPrefix(c.ev, << "persist", "write", "sync" >>)
            /\ c.pc = "done" =>
                 IF c.status = 200
                 THEN /\ c.ev = << "persist", "write", "sync" >>
                      /\ conf = RenderConfig(system, clients)
                      /\ kernel = conf
                 ELSE c.status \in {400, 409} /\ c.ev = <<>>

C6_Witness ==
    \E p \in Procs :
        /\ calls[p].pc = "done" /\ calls[p].status = 200
        /\ calls[p].op = "disableClient"
        /\ Has(calls[p].pre, calls[p].id)
        /\ Val(findById(calls[p].pre, calls[p].id)).enabled
        /\ Len(conf) = 1

----------------------------------------------------------------------------
(* Claims checked under SpecCron *)

PeerKeys(content) == { content[k].key : k \in 2..Len(content) }

\* C7: when a reconciliation pass disabled a client, the pass re-runs
\* save-and-sync: at its end the config file holds no peer block of a client
\* it disabled and the kernel has been synced to that config.
C7_PassSavesAndSyncs ==
    (cron.pc = "done" /\ cron.disabled # {}) =>
        /\ \A k \in 1..Len(clients) :
             clients[k].id \in cron.disabled => clients[k].publicKey \notin PeerKeys(conf)
        /\ kernel = RenderConfig(system, clients)

\* C8: after a pass, with the expiration feature enabled every client that
\* was enabled and whose expiresAt lay before the time of the pass is
\* disabled; with the feature disabled no client's enabled flag has changed.
C8_ExpiredClientsDisabled ==
    cron.pc = "done" =>
        /\ Len(clients) = Len(cron.pre)
        /\ \A k \in 1..Len(cron.pre) :
             LET old == cron.pre[k]
                 cur == clients[k]
             IN  IF system.clientExpiration.enabled
                 THEN (old.enabled /\ ~IsNull(old.expiresAt) /\ Val(old.expiresAt) < cron.t0)
                         => ~cur.enabled
                 ELSE cur.enabled = old.enabled

C8_Witness ==
    /\ cron.pc = "done"
    /\ system.clientExpiration.enabled
    /\ \E k, m \in 1..Len(cron.pre) :
         /\ cron.pre[k].enabled /\ ~IsNull(cron.pre[k].expiresAt)
         /\ Val(cron.pre[k].expiresAt) < cron.t0
         /\ ~clients[k].enabled
         /\ clients[m].enabled

\* C9: with one-time links enabled, a link whose expiry has passed is absent
\* (oneTimeLink is null) once a reconciliation pass has run.
C9_ExpiredLinkAbsent ==
    (cron.pc = "done" /\ system.oneTimeLinks.enabled) =>
        \A k \in 1..Len(cron.pre) :
            ( /\ ~IsNull(cron.pre[k].oneTimeLink)
              /\ Val(cron.pre[k].oneTimeLink).expiresAt < cron.t0 )
                => IsNull(clients[k].oneTimeLink)

\* C10: deleteOneTimeLink on a client that has a link keeps the link and its
\* token and sets the link's expiry to 10 seconds after the current time; on
\* a client without a link, or an unknown id, the registry is unchanged.
C10_EraseDelaysExpiry ==
    \A p \in Procs :
        LET c == calls[p]
        IN  (c.op = "eraseOneTimeLink" /\ c.pc # "idle") =>
              /\ Len(clients) = Len(c.pre)
              /\ \A k \in 1..Len(c.pre) :
                   IF c.pre[k].id = c.id /\ ~IsNull(c.pre[k].oneTimeLink)
                   THEN /\ ~IsNull(clients[k].oneTimeLink)
                        /\ Val(clients[k].oneTimeLink).oneTimeLink
                              = Val(c.pre[k].oneTimeLink).oneTimeLink
                        /\ Val(clients[k].oneTimeLink).expiresAt = c.t0 + EraseDelay
                        /\ [clients[k] EXCEPT !.oneTimeLink = Null]
                              = [c.pre[k] EXCEPT !.oneTimeLink = Null]
                   ELSE clients[k] = c.pre[k]

C10_Witness ==
    \E p \in Procs :
        LET c == calls[p]
        IN  /\ c.op = "eraseOneTimeLink" /\ c.pc = "done"
            /\ \E k \in 1..Len(c.pre) :
                 /\ c.pre[k].id = c.id
                 /\ ~IsNull(c.pre[k].oneTimeLink)
                 /\ Val(c.pre[k].oneTimeLink).expiresAt > c.t0 + EraseDelay
                 /\ c.t0 > 0


----------------------------------------------------------------------------
(* Claims checked under SpecBoot *)

InLoop == boot.pc \in { "loop", "pass", "sleep" }

\* C11: once the reconciliation loop has started, the end of every pass,
\* resolved or rejected, arms the timer of the next pass with a delay of
\* 60 seconds; an error of a pass never takes the service out of the loop;
\* and with timers firing, passes occur again and again.
C11_LoopNeverStops ==
    /\ [][(boot.pc = "pass" /\ boot'.pc # "pass") =>
             (boot'.pc = "sleep" /\ boot'.timer = Timer(CronInterval))]_vars
    /\ [][InLoop => InLoop']_vars
    /\ (InLoop ~> boot.pc = "sleep")
    /\ (boot.pc = "sleep" ~> boot.pc = "pass")

(* A pass has begun after a pass that threw. *)
C11_Witness == boot.pc = "pass" /\ boot.lastThrew

\* C12: while Startup is in its wait and the repository is connected, a
\* check of the connected flag is still to come, so that the wait ends.
C12_WaitEndsOnceConnected ==
    (boot.pc = "wait" /\ boot.connected) => boot.timer.armed

StartupOrder == << "connected", "write", "down", "up", "sync", "pass" >>

\* C13: the steps of Startup occur only in the order connected, write, down,
\* up, sync, first pass; nothing is written, brought up or synced before the
\* repository was observed connected; when up fails Startup ends there,
\* with no sync and no reconciliation loop.
C13_StartupOrder ==
    /\ \/ IsPrefix(boot.ev, StartupOrder)
       \/ boot.ev = << "connected", "write", "down", "up_failed" >>
    /\ Len(boot.ev) > 0 => boot.seen
    /\ Len(boot.ev) = 0 => (conf = <<>> /\ kernel = <<>> /\ cron = IdleCron)
    /\ boot.pc = "exited" =>
          /\ boot.ev = << "connected", "write", "down", "up_failed" >>
          /\ cron = IdleCron
          /\ ~boot.timer.armed

(* The whole sequence has run and the second pass is scheduled. *)
C13_Witness == boot.ev = StartupOrder /\ boot.pc = "sleep" /\ Len(conf) > 1

----------------------------------------------------------------------------
(* Claims checked under SpecErr *)

\* C14: when sync fails during a mutating operation the call ends with the
\* error, the change it made to the registry stays, the config file holds
\* the rendering of the changed registry, and sync was attempted once.
C14_SyncFailureKeepsMutation ==
    \A p \in Procs :
        LET c  == calls[p]
            o  == findById(c.pre, c.id)
            n  == findById(clients, c.id)
        IN  (c.pc = "done" /\ c.cause = "wg sync failed") =>
              /\ c.status = 500
              /\ c.ev = << "persist", "write", "sync_failed" >>
              /\ conf = RenderConfig(system, clients)
              /\ c.op = "createClient" => (IsNull(o) /\ ~IsNull(n))
              /\ c.op = "deleteClient" => IsNull(n)
              /\ (c.op = "enableClient" /\ ~IsNull(o)) => (~IsNull(n) /\ Val(n).enabled)
              /\ (c.op = "disableClient" /\ ~IsNull(o)) => (~IsNull(n) /\ ~Val(n).enabled)

(* disableClient of an enabled client whose sync failed: the kernel still   *)
(* has the peer that the config file no longer lists.                       *)
C14_Witness ==
    \E p \in Procs :
        /\ calls[p].pc = "done" /\ calls[p].cause = "wg sync failed"
        /\ calls[p].op = "disableClient"
        /\ Has(calls[p].pre, calls[p].id)
        /\ Val(findById(calls[p].pre, calls[p].id)).enabled
        /\ kernel # conf

----------------------------------------------------------------------------
(* Further claims checked under Spec and SpecSeq *)

\* C15: updateClientAddress with an address4 that is not a valid IPv4
\* literal ends with 400, leaves the registry as it was and takes no write
\* or sync step; so no client ever holds such an address.
C15_InvalidAddressRejected ==
    /\ \A p \in Procs :
          LET c == calls[p]
          IN  (c.op = "updateClientAddress" /\ c.pc = "done" /\ c.status = 400) =>
                 (clients = c.pre /\ c.ev = <<>>)
    /\ \A k \in 1..Len(clients) :
          \A i \in 1..Len(clients[k].address4) : clients[k].address4[i] <= 255

C15_Witness ==
    \E p \in Procs :
        /\ calls[p].op = "updateClientAddress"
        /\ calls[p].pc = "done" /\ calls[p].status = 400
        /\ Has(clients, calls[p].id)
        /\ conf = RenderConfig(system, clients)

IdOperations ==
    { "deleteClient", "enableClient", "disableClient", "updateClientName",
      "updateClientAddress", "updateClientExpireDate", "generateOneTimeLink",
      "eraseOneTimeLink" }

\* C16: an operation applied to a client id that is not in the registry
\* ends with a not-found error (404), not with success.
C16_UnknownIdNotFound ==
    \A p \in Procs :
        LET c == calls[p]
        IN  (c.pc = "done" /\ c.op \in IdOperations /\ ~Has(c.pre, c.id)
                /\ c.status # 400)
               => c.status = 404

----------------------------------------------------------------------------
(* Claims checked under SpecUsers *)

Backends == { "lowdb", "memory" }
Collection(backend) == IF backend = "lowdb" THEN users ELSE memory
CreatedIn(backend) == SelectSeq(created, LAMBDA r : r.backend = backend)

\* C17: in both backends the first user ever created has role ADMIN and
\* every user created after it has role CLIENT, whatever was deleted in
\* between and however the creations interleave.
C17_OnlyFirstUserAdmin ==
    \A b \in Backends :
        \A k \in 1..Len(CreatedIn(b)) :
            CreatedIn(b)[k].role = IF k = 1 THEN "ADMIN" ELSE "CLIENT"

\* C18: in both backends no two users of the collection have the same
\* username.
C18_UsernamesUnique ==
    \A b \in Backends :
        \A i, j \in 1..Len(Collection(b)) :
            i # j => Collection(b)[i].username # Collection(b)[j].username

\* C19: in both backends a create with a username shorter than the minimum
\* length ends with an error, and no user of the collection has such a
\* username.
C19_ShortUsernameRejected ==
    /\ \A p \in Procs :
          LET c == ucalls[p]
          IN  (c.op = "create" /\ c.pc = "done" /\ Len(c.username) < MinUsernameLen)
                 => c.error # ""
    /\ \A b \in Backends :
          \A k \in 1..Len(Collection(b)) :
              Len(Collection(b)[k].username) >= MinUsernameLen

\* C20: after update(user) / saveUser(user) for a user whose id is in the
\* collection, with no other call in flight, reading that id back gives the
\* given user.
C20_UpdateInPlace ==
    \A p \in Procs :
        LET c == ucalls[p]
        IN  ( /\ c.op = "update" /\ c.pc = "done" /\ c.found
              /\ \A q \in Procs \ { p } : ucalls[q].pc = "idle"
              /\ ~IsNull(UserById(Collection(c.backend), Val(c.user).id)) )
               => UserById(Collection(c.backend), Val(c.user).id) = c.user

----------------------------------------------------------------------------
(* Claims checked under SpecProvider *)

\* C22: after a connect that failed (loading or migrating threw) the
\* connected flag is false and every repository operation fails with the
\* initialization error.
C22_FailedConnectFailsOperations ==
    /\ (provider.failed /\ provider.pc = "idle") => ~provider.connected
    /\ (~IsNull(provider.last) /\ Val(provider.last).failed) =>
          Val(provider.last).outcome = "ERROR_INIT"

\* C26: once connect has completed and the provider is connected, the
\* repositories operate on the loaded and migrated document: their
\* operations go through to it.
C26_ConnectedRepositoriesOperate ==
    (~IsNull(provider.last) /\ Val(provider.last).connected) =>
        Val(provider.last).outcome = "ok"

----------------------------------------------------------------------------
(* Claims checked under SpecMemory *)

\* C24: in the in-memory backend no two users of the collection have the
\* same id.
C24_MemoryIdsUnique ==
    \A i, j \in 1..Len(memory) : i # j => memory[i].id # memory[j].id

----------------------------------------------------------------------------
(* Further claims checked under SpecConc *)

\* C23: when the operations that were in flight together have all
\* completed, the config file is the rendering of the registry as it then
\* is, and that is the configuration last synced.
C23_LastWriteIsNewest ==
    ( /\ \A p \in Procs : calls[p].pc \in { "idle", "done" }
      /\ \E p \in Procs : calls[p].pc = "done" /\ calls[p].status = 200 )
       => /\ conf = RenderConfig(system, clients)
          /\ kernel = conf

----------------------------------------------------------------------------
(* Claims checked under SpecFrame *)

RuntimeFields ==
    { "latestHandshakeAt", "endpoint", "transferRx", "transferTx", "persistentKeepalive" }

Without(rec, fields) == [f \in DOMAIN rec \ fields |-> rec[f]]

\* C21: getClients returns one view per client of the registry, in order;
\* the runtime fields of a view are those of the dump record with the
\* client's public key when there is one and null otherwise; records of
\* unknown keys add nothing; the registry is unchanged and the call takes
\* no write or sync step.
C21_ViewsMergeDumpByKey ==
    \A p \in Procs :
        LET c == calls[p]
        IN  (c.op = "getClients" /\ c.pc = "done") =>
              /\ Len(c.content) = Len(clients)
              /\ \A k \in 1..Len(clients) :
                   LET v    == c.content[k]
                       recs == { i \in 1..Len(c.dump) :
                                   c.dump[i].publicKey = clients[k].publicKey }
                   IN  /\ Without(v, RuntimeFields) = clients[k]
                       /\ \A f \in RuntimeFields :
                            v[f] = IF recs = {} THEN Null
                                   ELSE c.dump[CHOOSE i \in recs : TRUE][f]
              /\ clients = c.pre
              /\ c.ev = <<>>

(* A dump that lists the second client, a peer that is not in the registry  *)
(* and the first client, in that order, over a registry of several clients. *)
C21_Witness ==
    \E p \in Procs :
        /\ calls[p].op = "getClients" /\ calls[p].pc = "done"
        /\ Len(calls[p].dump) = 3
        /\ Len(clients) >= 2
        /\ calls[p].content[2].endpoint # Null

FieldOf(op) ==
    CASE op = "enableClient" -> "enabled"
      [] op = "disableClient" -> "enabled"
      [] op = "updateClientName" -> "name"
      [] op = "updateClientAddress" -> "address4"
      [] op = "updateClientExpireDate" -> "expiresAt"
      [] op = "generateOneTimeLink" -> "oneTimeLink"

\* C25: a client mutator changes only its own field of the client it is
\* given and no other client; delete removes only that client; with an id
\* that is not in the registry the registry stays as it was.
C25_MutatorsChangeOnlyTheirField ==
    \A p \in Procs :
        LET c == calls[p]
        IN  /\ (c.pc # "idle" /\ c.op = "deleteClient") =>
                  clients = SelectSeq(c.pre, LAMBDA x : x.id # c.id)
            /\ (c.pc # "idle" /\ c.op \in IdOperations \ { "deleteClient" }
                   /\ c.status # 400) =>
                  /\ Len(clients) = Len(c.pre)
                  /\ \A k \in 1..Len(c.pre) :
                       IF c.pre[k].id = c.id
                       THEN Without(clients[k], { FieldOf(c.op) })
                               = Without(c.pre[k], { FieldOf(c.op) })
                       ELSE clients[k] = c.pre[k]

(* disableClient of one enabled client while another enabled client exists. *)
C25_Witness ==
    \E p \in Procs :
        /\ calls[p].op = "disableClient" /\ calls[p].pc = "done"
        /\ \E i, j \in 1..Len(clients) :
             /\ i # j
             /\ clients[i].id = calls[p].id
             /\ calls[p].pre[i].enabled /\ ~clients[i].enabled
             /\ clients[j].enabled

====
